---- MODULE Spec2Model ----
(***************************************************************************)
(* A state-machine model of ParseAZFP (echopype/convert/parse_azfp.py):    *)
(* the stream driver parse_raw, the header decoder _split_header, the      *)
(* sample decoder _add_counts, the calibration transforms, the uniqueness  *)
(* reducer _check_uniqueness and the timestamp assembler _get_ping_time.   *)
(*                                                                         *)
(* The raw file is a sequence of bytes (0..255).  It is produced at Init   *)
(* by packing a short sequence of frames (header + per-channel payload)    *)
(* with the layout of HEADER_FORMAT and truncating the result; the parser  *)
(* then decodes the bytes exactly as the code does.                        *)
(*                                                                         *)
(* Numbers.  Unsigned 32-bit quantities and the reconstructed linear sums  *)
(* exceed the range of the model checker's integers, so they are kept as   *)
(* three little-endian limbs in base 65536 (Big).  Floating-point results  *)
(* are kept symbolically: a class ("nan", "zero", "fin", ...) and the      *)
(* integer inputs the value is a function of.                              *)
(***************************************************************************)
EXTENDS Integers, Sequences, FiniteSets, TLC

VARIABLES
    written,         \* the frames the instrument wrote, as indices into FrameCatalog
    xml_file,        \* content of the companion XML file
    source_file,     \* content of the raw file, a sequence of bytes
    parameters,      \* self.parameters
    unpacked_data,   \* self.unpacked_data, a defaultdict(list): key -> [kind, val]
    ping_time,       \* self.ping_time
    pos,             \* position of the open file handle
    pc,              \* control point of parse_raw
    ping_num,        \* local ping_num of parse_raw
    eof,             \* local eof of parse_raw
    header_unpacked, \* local header_unpacked of parse_raw
    error,           \* the exception that left parse_raw, if any
    depth,           \* number of parse_raw calls nested inside _check_uniqueness
    hist             \* history: opens, bytes returned by read, loop iterations, stage runs

vars == <<written, xml_file, source_file, parameters, unpacked_data, ping_time,
          pos, pc, ping_num, eof, header_unpacked, error, depth, hist>>

(***************************************************************************)
(* Bounds of the model.                                                    *)
(***************************************************************************)
\* longest sequence of frames written to a file
MaxPings == 2
\* nested parse_raw calls after which the interpreter raises RecursionError
RecursionLimit == 2

(***************************************************************************)
(* Program constants.                                                      *)
(***************************************************************************)
HEADER_SIZE == 124
FILE_TYPE == 64770
firmware_freq_len == 4
\* the factor applied to the overflow count in _add_counts, as limbs:
\* 4294967295 = 65535 + 65535 * 65536
OVERFLOW_FACTOR == <<65535, 65535, 0>>

HEADER_FORMAT ==
    <<"H", "H", "H", "H", "I", "H", "H", "H", "H", "H", "H", "H",
      "H", "H", "H", "H", "H", "H", "H", "H", "H", "H", "H", "H",
      "H", "H", "H", "H", "H", "H", "H", "H", "H", "H", "B", "B",
      "B", "B", "H", "B", "B", "B", "B", "B", "B", "B", "B", "H",
      "H", "H", "H", "H", "H", "H", "H", "H", "H", "H", "H", "H",
      "H", "H", "H", "H", "H", "H", "H">>

\* (name, type, count); count 0 stands for a two-element entry (a scalar field)
HEADER_FIELDS ==
    << <<"profile_flag", "u2", 0>>, <<"profile_number", "u2", 0>>,
       <<"serial_number", "u2", 0>>, <<"ping_status", "u2", 0>>,
       <<"burst_int", "u4", 0>>, <<"year", "u2", 0>>, <<"month", "u2", 0>>,
       <<"day", "u2", 0>>, <<"hour", "u2", 0>>, <<"minute", "u2", 0>>,
       <<"second", "u2", 0>>, <<"hundredths", "u2", 0>>,
       <<"dig_rate", "u2", 4>>, <<"lockout_index", "u2", 4>>,
       <<"num_bins", "u2", 4>>, <<"range_samples_per_bin", "u2", 4>>,
       <<"ping_per_profile", "u2", 0>>, <<"avg_pings", "u2", 0>>,
       <<"num_acq_pings", "u2", 0>>, <<"ping_period", "u2", 0>>,
       <<"first_ping", "u2", 0>>, <<"last_ping", "u2", 0>>,
       <<"data_type", "u1", 4>>, <<"data_error", "u2", 0>>,
       <<"phase", "u1", 0>>, <<"overrun", "u1", 0>>, <<"num_chan", "u1", 0>>,
       <<"gain", "u1", 4>>, <<"spare_chan", "u1", 0>>,
       <<"pulse_length", "u2", 4>>, <<"board_num", "u2", 4>>,
       <<"frequency", "u2", 4>>, <<"sensor_flag", "u2", 0>>,
       <<"ancillary", "u2", 5>>, <<"ad", "u2", 2>> >>

field_w_freq ==
    <<"dig_rate", "lockout_index", "num_bins", "range_samples_per_bin",
      "data_type", "gain", "pulse_length", "board_num", "frequency">>

\* the scalar fields with serial_number left out of the check
field_include_no_serial ==
    <<"profile_flag", "burst_int", "ping_per_profile",
      "avg_pings", "ping_period", "phase", "num_chan", "spare_chan">>

field_include ==
    <<"profile_flag", "serial_number", "burst_int", "ping_per_profile",
      "avg_pings", "ping_period", "phase", "num_chan", "spare_chan">>

(***************************************************************************)
(* Small helpers.                                                          *)
(***************************************************************************)
Min(a, b) == IF a < b THEN a ELSE b

Range(s) == {s[i] : i \in 1..Len(s)}

\* Python's s[a:b] for 0 <= a <= b (the slice is clipped to the sequence)
Slice(s, a, b) == SubSeq(s, a + 1, Min(b, Len(s)))

RECURSIVE Concat(_)
Concat(ss) == IF ss = <<>> THEN <<>> ELSE Head(ss) \o Concat(Tail(ss))

(***************************************************************************)
(* Big: naturals below 65536^3 as limbs <<l0, l1, l2>> = l0 + l1*2^16 +    *)
(* l2*2^32.                                                                *)
(***************************************************************************)
BigAdd(x, y) ==
    LET s0 == x[1] + y[1]
        s1 == x[2] + y[2] + (s0 \div 65536)
        s2 == x[3] + y[3] + (s1 \div 65536)
    IN  <<s0 % 65536, s1 % 65536, s2 % 65536>>

BigMulSmall(x, k) ==
    LET p0 == x[1] * k
        p1 == x[2] * k + (p0 \div 65536)
        p2 == x[3] * k + (p1 \div 65536)
    IN  <<p0 % 65536, p1 % 65536, p2 % 65536>>

BigZero == <<0, 0, 0>>

(***************************************************************************)
(* struct.pack / struct.unpack, big-endian.                                *)
(***************************************************************************)
Width(code) == CASE code = "H" -> 2 [] code = "I" -> 4 [] code = "B" -> 1

RECURSIVE calcsize(_)
calcsize(fmt) == IF fmt = <<>> THEN 0 ELSE Width(Head(fmt)) + calcsize(Tail(fmt))

UnpackH(b) == b[1] * 256 + b[2]
UnpackB(b) == b[1]
UnpackI(b) == <<b[3] * 256 + b[4], b[1] * 256 + b[2], 0>>

UnpackOne(code, b) ==
    CASE code = "H" -> UnpackH(b) [] code = "I" -> UnpackI(b) [] code = "B" -> UnpackB(b)

RECURSIVE UnpackFrom(_, _, _, _)
UnpackFrom(fmt, b, i, off) ==
    IF i > Len(fmt) THEN <<>>
    ELSE <<UnpackOne(fmt[i], SubSeq(b, off + 1, off + Width(fmt[i])))>>
         \o UnpackFrom(fmt, b, i + 1, off + Width(fmt[i]))

\* unpack(fmt, b); struct.error unless the buffer has exactly calcsize(fmt) bytes
StructOk(fmt, b) == Len(b) = calcsize(fmt)
unpack(fmt, b) == UnpackFrom(fmt, b, 1, 0)

Rep(code, n) == [i \in 1..n |-> code]

PackH(v) == <<v \div 256, v % 256>>
PackB(v) == <<v>>
PackI(v) == <<v[2] \div 256, v[2] % 256, v[1] \div 256, v[1] % 256>>

PackOne(code, v) ==
    CASE code = "H" -> PackH(v) [] code = "I" -> PackI(v) [] code = "B" -> PackB(v)

pack(fmt, vals) == Concat([i \in 1..Len(fmt) |-> PackOne(fmt[i], vals[i])])

(***************************************************************************)
(* The binary frame format: a frame is a header of HEADER_SIZE bytes in    *)
(* the order of HEADER_FIELDS followed by one payload per channel.  A      *)
(* frame is a record with one entry per header field (the frequency        *)
(* fields with all four slots, the slots past the channel count holding    *)
(* arbitrary padding) and its samples: per channel, 16-bit values for a    *)
(* raw channel, [sum, overflow] pairs for an averaged one.                 *)
(***************************************************************************)
RECURSIVE HeaderValuesFrom(_, _)
HeaderValuesFrom(fr, i) ==
    IF i > Len(HEADER_FIELDS) THEN <<>>
    ELSE LET field == HEADER_FIELDS[i]
         IN  (IF field[3] = 0 THEN <<fr[field[1]]>> ELSE fr[field[1]])
             \o HeaderValuesFrom(fr, i + 1)

HeaderValues(fr) == HeaderValuesFrom(fr, 1)

ChannelPayload(fr, ch) ==
    LET smp == fr.samples[ch]
        n == Len(smp)
    IN  IF fr.data_type[ch] # 0
        THEN pack(Rep("I", n), [i \in 1..n |-> smp[i].sum])
             \o pack(Rep("B", n), [i \in 1..n |-> smp[i].overflow])
        ELSE pack(Rep("H", n), smp)

FramePayload(fr) == Concat([ch \in 1..Len(fr.samples) |-> ChannelPayload(fr, ch)])

EncodeFrame(fr) == pack(HEADER_FORMAT, HeaderValues(fr)) \o FramePayload(fr)

EncodeAll(frs) == Concat([i \in 1..Len(frs) |-> EncodeFrame(frs[i])])

(***************************************************************************)
(* The frames files are made of.                                           *)
(***************************************************************************)
\* one raw channel, two bins
Raw1 ==
    [profile_flag |-> FILE_TYPE, profile_number |-> 1, serial_number |-> 55,
     ping_status |-> 0, burst_int |-> <<10, 0, 0>>,
     year |-> 2020, month |-> 1, day |-> 2, hour |-> 3, minute |-> 4,
     second |-> 5, hundredths |-> 60,
     dig_rate |-> <<20, 9001, 9002, 9003>>,
     lockout_index |-> <<7, 9011, 9012, 9013>>,
     num_bins |-> <<2, 9021, 9022, 9023>>,
     range_samples_per_bin |-> <<1, 9031, 9032, 9033>>,
     ping_per_profile |-> 1, avg_pings |-> 0, num_acq_pings |-> 1,
     ping_period |-> 1, first_ping |-> 1, last_ping |-> 1,
     data_type |-> <<0, 201, 202, 203>>, data_error |-> 0, phase |-> 1,
     overrun |-> 0, num_chan |-> 1, gain |-> <<1, 211, 212, 213>>,
     spare_chan |-> 0,
     pulse_length |-> <<300, 9041, 9042, 9043>>,
     board_num |-> <<0, 9051, 9052, 9053>>,
     frequency |-> <<38, 9061, 9062, 9063>>,
     sensor_flag |-> 0, ancillary |-> <<100, 200, 300, 400, 500>>,
     ad |-> <<600, 700>>,
     samples |-> << <<258, 3>> >>]

\* the next ping of the same deployment: same configuration, other data
Raw2 ==
    [Raw1 EXCEPT !.profile_number = 2, !.second = 59, !.hundredths = 99,
                 !.ancillary = <<101, 201, 301, 401, 0>>, !.ad = <<601, 701>>,
                 !.samples = << <<4, 65535>> >>]

\* a ping whose serial number differs
Serial56 == [Raw1 EXCEPT !.serial_number = 56]

\* a ping whose lockout index differs and whose channel has no bins
Lockout8 ==
    [Raw1 EXCEPT !.lockout_index = <<8, 9011, 9012, 9013>>,
                 !.num_bins = <<0, 9021, 9022, 9023>>,
                 !.samples = << <<>> >>]

\* a frame with a foreign marker
BadMarker == [Raw1 EXCEPT !.profile_flag = 1234]

\* a frame with a foreign marker and no samples
BadMarkerNoBins ==
    [Raw1 EXCEPT !.profile_flag = 1234, !.num_bins = <<0, 9021, 9022, 9023>>,
                 !.samples = << <<>> >>]

\* one averaged channel, pings averaged in time
Avg1 ==
    [Raw1 EXCEPT !.data_type = <<1, 201, 202, 203>>, !.avg_pings = 1,
                 !.ping_per_profile = 3,
                 !.range_samples_per_bin = <<2, 9031, 9032, 9033>>,
                 !.samples = << << [sum |-> <<0, 0, 0>>, overflow |-> 0],
                                   [sum |-> <<65535, 65535, 0>>, overflow |-> 255] >> >>]

\* one averaged channel with zero range samples per bin
AvgDiv0 ==
    [Raw1 EXCEPT !.data_type = <<1, 201, 202, 203>>,
                 !.range_samples_per_bin = <<0, 9031, 9032, 9033>>,
                 !.samples = << << [sum |-> <<0, 0, 0>>, overflow |-> 0],
                                   [sum |-> <<7, 0, 0>>, overflow |-> 1] >> >>]

\* two channels: a raw one with one bin, an averaged one with one bin
TwoChan ==
    [Raw1 EXCEPT !.num_chan = 2, !.ping_per_profile = 5,
                 !.num_bins = <<1, 1, 9022, 9023>>,
                 !.data_type = <<0, 1, 202, 203>>,
                 !.range_samples_per_bin = <<1, 4, 9032, 9033>>,
                 !.samples = << <<513>>,
                                << [sum |-> <<0, 1, 0>>, overflow |-> 0] >> >>]

\* a ping whose clock fields are no calendar date
BadDate == [Raw1 EXCEPT !.month = 13]

FrameCatalog ==
    <<Raw1, Raw2, Serial56, Lockout8, BadMarker, BadMarkerNoBins, Avg1, AvgDiv0,
      TwoChan, BadDate>>

\* the frames of a file, given as indices into the catalog
Frames(ids) == [i \in 1..Len(ids) |-> FrameCatalog[ids[i]]]

RECURSIVE SeqsUpTo(_, _)
SeqsUpTo(S, n) ==
    IF n = 0 THEN {<<>>}
    ELSE LET shorter == SeqsUpTo(S, n - 1)
         IN  shorter \cup {Append(s, x) : s \in shorter, x \in S}

\* number of bytes cut from the end of the file: nothing, or a cut inside
\* or right after the header or inside the payload of the last frame
DropChoices(frs) ==
    IF frs = <<>> THEN {0}
    ELSE LET p == Len(FramePayload(frs[Len(frs)]))
         IN  {0, p, p + 1, p + HEADER_SIZE - 1}
             \cup (IF p > 0 THEN {1, p - 1} ELSE {})

(***************************************************************************)
(* The instrument parameters of the XML file.  The coefficients are        *)
(* floats with integer values.                                             *)
(***************************************************************************)
Params(nf, ds, t, x, y) ==
    [num_freq |-> nf, DS |-> ds,
     ka |-> t[1], kb |-> t[2], kc |-> t[3], A |-> 1, B |-> 1, C |-> 1,
     X_a |-> x[1], X_b |-> x[2], X_c |-> x[3], X_d |-> 1,
     Y_a |-> y[1], Y_b |-> y[2], Y_c |-> y[3], Y_d |-> 1,
     as_array |-> FALSE]

ParamChoices ==
    {Params(1, <<1>>, <<1, 2, 3>>, <<1, 1, 1>>, <<0, 1, 0>>),
     Params(2, <<0, -1>>, <<0, 0, 0>>, <<0, 0, 0>>, <<1, 0, 0>>),
     Params(3, <<-1, 1, 1>>, <<0, 1, 0>>, <<1, 0, 0>>, <<0, 0, 0>>),
     Params(4, <<1, 1, 0, 1>>, <<0, 0, 0>>, <<0, 0, 0>>, <<0, 0, 0>>)}

(***************************************************************************)
(* file.read(n) on a handle at position p.                                 *)
(***************************************************************************)
ReadBytes(file, p, n) == SubSeq(file, p + 1, Min(p + n, Len(file)))
ReadPos(file, p, n) == Min(p + n, Len(file))

(***************************************************************************)
(* unpacked_data: a defaultdict(list).  A key is present once touched; its *)
(* value is [kind, val]: kind "list" is the per-ping Python list, "uniq"   *)
(* the squeezed result of np.unique, "uniq_float64" that result cast to    *)
(* float64, "ndarray" the per-ping np.asarray of a list.                   *)
(***************************************************************************)
EmptyDict == [k \in {} |-> 0]

EmptyList == [kind |-> "list", val |-> <<>>]

Get(d, k) == IF k \in DOMAIN d THEN d[k] ELSE EmptyList

Put(d, k, v) == [x \in (DOMAIN d) \cup {k} |-> IF x = k THEN v ELSE d[x]]

\* self.unpacked_data[k].append(v)
AppendTo(d, k, v) == Put(d, k, [kind |-> "list", val |-> Append(Get(d, k).val, v)])

\* self.unpacked_data[k][ping_num], ping_num counted from 0
At(d, k, ping) == d[k].val[ping + 1]

NoError == [type |-> "none", msg |-> ""]
Raise(t, m) == [type |-> t, msg |-> m]

(***************************************************************************)
(* _split_header: False (ok = FALSE) for a foreign marker followed by at   *)
(* least one byte; otherwise every field of the header is appended.        *)
(***************************************************************************)
\* the fields taken from a header in which a frequency-dependent field
\* is followed at once by the next field, after num_freq slots
RECURSIVE SplitFieldsPacked(_, _, _, _, _)
SplitFieldsPacked(d, hu, num_freq, i, header_byte_cnt) ==
    IF i > Len(HEADER_FIELDS) THEN d
    ELSE LET field == HEADER_FIELDS[i]
             n == IF field[1] \in Range(field_w_freq) THEN num_freq ELSE field[3]
         IN  IF n # 0
             THEN SplitFieldsPacked(
                      AppendTo(d, field[1], Slice(hu, header_byte_cnt, header_byte_cnt + n)),
                      hu, num_freq, i + 1, header_byte_cnt + n)
             ELSE SplitFieldsPacked(AppendTo(d, field[1], hu[header_byte_cnt + 1]),
                                    hu, num_freq, i + 1, header_byte_cnt + 1)

RECURSIVE SplitFields(_, _, _, _, _)
SplitFields(d, hu, num_freq, i, header_byte_cnt) ==
    IF i > Len(HEADER_FIELDS) THEN d
    ELSE LET field == HEADER_FIELDS[i]
         IN  IF field[1] \in Range(field_w_freq)
             THEN SplitFields(
                      AppendTo(d, field[1],
                               Slice(hu, header_byte_cnt, header_byte_cnt + num_freq)),
                      hu, num_freq, i + 1, header_byte_cnt + firmware_freq_len)
             ELSE IF field[3] # 0
             THEN SplitFields(
                      AppendTo(d, field[1],
                               Slice(hu, header_byte_cnt, header_byte_cnt + field[3])),
                      hu, num_freq, i + 1, header_byte_cnt + field[3])
             ELSE SplitFields(AppendTo(d, field[1], hu[header_byte_cnt + 1]),
                              hu, num_freq, i + 1, header_byte_cnt + 1)

split_header(d, file, p, hu, num_freq) ==
    LET foreign == hu[1] # FILE_TYPE
        check_eof == ReadBytes(file, p, 1)
        p1 == IF foreign THEN ReadPos(file, p, 1) ELSE p
    IN  IF foreign /\ check_eof # <<>>
        THEN [ok |-> FALSE, pos |-> p1, data |-> d]
        ELSE [ok |-> TRUE, pos |-> p1, data |-> SplitFields(d, hu, num_freq, 1, 0)]

(***************************************************************************)
(* _add_counts.  A decoded averaged sample is a float: the class of the    *)
(* result and, for a finite one, the linear sum, the divisor and the DS    *)
(* coefficient it is computed from:                                        *)
(*   (log10(mag / div) - 2.5) * (8 * 65535) * ds.                          *)
(***************************************************************************)
\* np.array(ls) + np.array(lso) * 4294967295, for one bin
LinearSum(sum, overflow) == BigAdd(sum, BigMulSmall(OVERFLOW_FACTOR, overflow))

\* class of mag / div
QuotientClass(mag, div) ==
    IF div = 0 THEN (IF mag = BigZero THEN "nan" ELSE "+inf")
    ELSE IF mag = BigZero THEN "zero" ELSE "pos"

\* class of np.log10 of a value of class c
Log10Class(c) ==
    CASE c = "nan" -> "nan" [] c = "+inf" -> "+inf" [] c = "zero" -> "-inf"
      [] c = "pos" -> "fin"

\* class of (x - 2.5) * (8 * 65535) * ds for x of class c
ScaleClass(c, ds) ==
    CASE c = "nan" -> "nan"
      [] c = "fin" -> IF ds = 0 THEN "zero" ELSE "fin"
      [] c = "+inf" -> IF ds = 0 THEN "nan" ELSE IF ds > 0 THEN "+inf" ELSE "-inf"
      [] c = "-inf" -> IF ds = 0 THEN "nan" ELSE IF ds > 0 THEN "-inf" ELSE "+inf"

\* v[np.isinf(v)] = 0
ClampClass(c) == IF c \in {"+inf", "-inf"} THEN "zero" ELSE c

AvgSample(sum, overflow, divisor, ds) ==
    LET mag == LinearSum(sum, overflow)
        c == ClampClass(ScaleClass(Log10Class(QuotientClass(mag, divisor)), ds))
    IN  IF c = "fin" THEN [cls |-> "fin", mag |-> mag, div |-> divisor, ds |-> ds]
        ELSE [cls |-> c, mag |-> BigZero, div |-> 0, ds |-> 0]

\* a raw channel decoded with the bytes of each value swapped ("<" for ">")
RawChannelLittleEndian(counts_chunk, n) ==
    [i \in 1..n |-> counts_chunk[2 * i - 1] + 256 * counts_chunk[2 * i]]

\* unpack(">" + "H" * n, counts_chunk) of a raw channel
RawChannel(counts_chunk, n) == unpack(Rep("H", n), counts_chunk)

\* the averaged branch, after both reads
AvgChannel(ls_chunk, lso_chunk, n, divisor, ds) ==
    LET ls == unpack(Rep("I", n), ls_chunk)
        lso == unpack(Rep("B", n), lso_chunk)
    IN  [i \in 1..n |-> AvgSample(ls[i], lso[i], divisor, ds)]

\* the divisor without the pings averaged in time
DivisorRangeOnly(d, ping, freq_ch) == At(d, "range_samples_per_bin", ping)[freq_ch + 1]

\* the divisor of an averaged channel
Divisor(d, ping, freq_ch) ==
    IF At(d, "avg_pings", ping) # 0
    THEN At(d, "ping_per_profile", ping) * At(d, "range_samples_per_bin", ping)[freq_ch + 1]
    ELSE At(d, "range_samples_per_bin", ping)[freq_ch + 1]

\* the loop with the overflow bytes of an averaged channel read but not
\* consumed, and every other read as it is
RECURSIVE AddCountsLoopOverflowInPlace(_, _, _, _, _, _, _)
AddCountsLoopOverflowInPlace(d, file, p, ping, DS, freq_ch, vv) ==
    IF freq_ch >= At(d, "num_chan", ping) THEN [err |-> NoError, pos |-> p, vv |-> vv]
    ELSE IF freq_ch >= Len(At(d, "num_bins", ping))
    THEN [err |-> Raise("IndexError", "num_bins"), pos |-> p, vv |-> vv]
    ELSE LET n == At(d, "num_bins", ping)[freq_ch + 1]
         IN  IF At(d, "data_type", ping)[freq_ch + 1] # 0
             THEN LET ls_chunk == ReadBytes(file, p, n * 4)
                      p1 == ReadPos(file, p, n * 4)
                      lso_chunk == ReadBytes(file, p1, n)
                  IN  IF ~StructOk(Rep("I", n), ls_chunk)
                      THEN [err |-> Raise("struct.error", "ls"), pos |-> p1, vv |-> vv]
                      ELSE IF ~StructOk(Rep("B", n), lso_chunk)
                      THEN [err |-> Raise("struct.error", "lso"), pos |-> p1, vv |-> vv]
                      ELSE IF freq_ch >= Len(DS)
                      THEN [err |-> Raise("IndexError", "DS"), pos |-> p1, vv |-> vv]
                      ELSE AddCountsLoopOverflowInPlace(d, file, p1, ping, DS, freq_ch + 1,
                               [vv EXCEPT ![freq_ch + 1] =
                                   AvgChannel(ls_chunk, lso_chunk, n,
                                              Divisor(d, ping, freq_ch), DS[freq_ch + 1])])
             ELSE LET counts_chunk == ReadBytes(file, p, n * 2)
                      p1 == ReadPos(file, p, n * 2)
                  IN  IF ~StructOk(Rep("H", n), counts_chunk)
                      THEN [err |-> Raise("struct.error", "counts"), pos |-> p1, vv |-> vv]
                      ELSE AddCountsLoopOverflowInPlace(d, file, p1, ping, DS, freq_ch + 1,
                               [vv EXCEPT ![freq_ch + 1] = RawChannel(counts_chunk, n)])

\* the loop over range(num_chan): [err, pos, vv]
RECURSIVE AddCountsLoop(_, _, _, _, _, _, _)
AddCountsLoop(d, file, p, ping, DS, freq_ch, vv) ==
    IF freq_ch >= At(d, "num_chan", ping) THEN [err |-> NoError, pos |-> p, vv |-> vv]
    ELSE IF freq_ch >= Len(At(d, "num_bins", ping))
    THEN [err |-> Raise("IndexError", "num_bins"), pos |-> p, vv |-> vv]
    ELSE LET counts_byte_size == At(d, "num_bins", ping)[freq_ch + 1]
         IN  IF At(d, "data_type", ping)[freq_ch + 1] # 0
             THEN LET ls_chunk == ReadBytes(file, p, counts_byte_size * 4)
                      p1 == ReadPos(file, p, counts_byte_size * 4)
                      lso_chunk == ReadBytes(file, p1, counts_byte_size)
                      p2 == ReadPos(file, p1, counts_byte_size)
                  IN  IF ~StructOk(Rep("I", counts_byte_size), ls_chunk)
                      THEN [err |-> Raise("struct.error", "ls"), pos |-> p1, vv |-> vv]
                      ELSE IF ~StructOk(Rep("B", counts_byte_size), lso_chunk)
                      THEN [err |-> Raise("struct.error", "lso"), pos |-> p2, vv |-> vv]
                      ELSE IF freq_ch >= Len(DS)
                      THEN [err |-> Raise("IndexError", "DS"), pos |-> p2, vv |-> vv]
                      ELSE AddCountsLoop(d, file, p2, ping, DS, freq_ch + 1,
                               [vv EXCEPT ![freq_ch + 1] =
                                   AvgChannel(ls_chunk, lso_chunk, counts_byte_size,
                                              Divisor(d, ping, freq_ch), DS[freq_ch + 1])])
             ELSE LET counts_chunk == ReadBytes(file, p, counts_byte_size * 2)
                      p1 == ReadPos(file, p, counts_byte_size * 2)
                  IN  IF ~StructOk(Rep("H", counts_byte_size), counts_chunk)
                      THEN [err |-> Raise("struct.error", "counts"), pos |-> p1, vv |-> vv]
                      ELSE AddCountsLoop(d, file, p1, ping, DS, freq_ch + 1,
                               [vv EXCEPT ![freq_ch + 1] =
                                   RawChannel(counts_chunk, counts_byte_size)])

\* [err, pos, data]
add_counts(d, file, p, ping, DS) ==
    LET vv_tmp == [i \in 1..At(d, "num_chan", ping) |-> <<>>]
        r == AddCountsLoop(d, file, p, ping, DS, 0, vv_tmp)
    IN  [err |-> r.err, pos |-> r.pos,
         data |-> IF r.err = NoError THEN AppendTo(d, "counts", r.vv) ELSE d]

(***************************************************************************)
(* datetime(year, month, day, hour, minute, second): ValueError unless the *)
(* fields are a calendar date and a time of day.                           *)
(***************************************************************************)
IsLeap(y) == (y % 4 = 0 /\ y % 100 # 0) \/ y % 400 = 0

DaysInMonth(y, m) ==
    IF m = 2 THEN (IF IsLeap(y) THEN 29 ELSE 28)
    ELSE IF m \in {4, 6, 9, 11} THEN 30 ELSE 31

DateOk(t) ==
    /\ t[1] \in 1..9999
    /\ t[2] \in 1..12
    /\ t[3] >= 1 /\ t[3] <= DaysInMonth(t[1], t[2])
    /\ t[4] \in 0..23
    /\ t[5] \in 0..59
    /\ t[6] \in 0..59

\* the seconds rounded to the nearest whole second instead of truncated
IntSecondsRounded(second, hundredths) == second + ((hundredths + 50) \div 100)

\* int(second + hundredths / 100)
IntSeconds(second, hundredths) == second + (hundredths \div 100)

\* the arguments of dt(...) for one ping
PingDate(d, ping) ==
    <<At(d, "year", ping), At(d, "month", ping), At(d, "day", ping),
      At(d, "hour", ping), At(d, "minute", ping),
      IntSeconds(At(d, "second", ping), At(d, "hundredths", ping))>>

\* _print_status: the error it raises, if any
print_status(d) ==
    IF DateOk(PingDate(d, 0)) THEN NoError ELSE Raise("ValueError", "datetime")

(***************************************************************************)
(* Calibration transforms.  A result is a float kept as its class and the  *)
(* counts it is computed from.                                             *)
(***************************************************************************)
Flt(cls, a, b) == [cls |-> cls, a |-> a, b |-> b]
NaN == Flt("nan", 0, 0)

\* np.isclose(x, 0) for an integer-valued float
IsClose0(x) == x = 0

test_valid_params(prm, names) == ~(\A n \in names : IsClose0(prm[n]))

\* the temperature computed whatever the validity flag says
compute_temperature_unchecked(d, prm, ping, is_valid) ==
    LET counts == At(d, "ancillary", ping)[5]
    IN  IF 131070 * prm.kc = 5 * counts
        THEN [err |-> Raise("ZeroDivisionError", "temperature"), val |-> NaN]
        ELSE [err |-> NoError, val |-> Flt("temperature", counts, 0)]

\* [err, val]; the division by (kc - v_in), v_in = 2.5 * (counts / 65535),
\* is a division of Python floats and raises when the divisor is zero
compute_temperature(d, prm, ping, is_valid) ==
    IF ~is_valid THEN [err |-> NoError, val |-> NaN]
    ELSE LET counts == At(d, "ancillary", ping)[5]
         IN  IF 131070 * prm.kc = 5 * counts
             THEN [err |-> Raise("ZeroDivisionError", "temperature"), val |-> NaN]
             ELSE [err |-> NoError, val |-> Flt("temperature", counts, 0)]

compute_tilt(d, ping, xy, is_valid) ==
    IF ~is_valid THEN NaN
    ELSE LET idx == IF xy = "X" THEN 0 ELSE 1
         IN  Flt(IF xy = "X" THEN "tilt_X" ELSE "tilt_Y", At(d, "ancillary", ping)[idx + 1], 0)

\* np.cos(np.sqrt(tilt_x ** 2 + tilt_y ** 2) * np.pi / 180)
cos_tilt_mag(tx, ty) ==
    IF tx.cls = "nan" \/ ty.cls = "nan" THEN NaN ELSE Flt("cos_tilt_mag", tx.a, ty.a)

compute_battery(d, ping, battery_type) ==
    IF battery_type = "main" THEN Flt("volt", At(d, "ancillary", ping)[3], 0)
    ELSE Flt("volt", At(d, "ad", ping)[1], 0)

\* the six appends of the loop body: [err, data]
calibrate(d, prm, ping) ==
    LET temperature_is_valid == test_valid_params(prm, {"ka", "kb", "kc"})
        tilt_x_is_valid == test_valid_params(prm, {"X_a", "X_b", "X_c"})
        tilt_y_is_valid == test_valid_params(prm, {"Y_a", "Y_b", "Y_c"})
        t == compute_temperature(d, prm, ping, temperature_is_valid)
        tx == compute_tilt(d, ping, "X", tilt_x_is_valid)
        ty == compute_tilt(d, ping, "Y", tilt_y_is_valid)
        d1 == AppendTo(d, "temperature", t.val)
        d2 == AppendTo(d1, "tilt_x", tx)
        d3 == AppendTo(d2, "tilt_y", ty)
        d4 == AppendTo(d3, "cos_tilt_mag", cos_tilt_mag(tx, ty))
        d5 == AppendTo(d4, "battery_main", compute_battery(d4, ping, "main"))
        d6 == AppendTo(d5, "battery_tx", compute_battery(d5, ping, "tx"))
    IN  IF t.err # NoError THEN [err |-> t.err, data |-> d]
        ELSE [err |-> NoError, data |-> d6]

(***************************************************************************)
(* _check_uniqueness, for a dataset that is not empty.                     *)
(***************************************************************************)
\* np.array(x).size of a scalar-per-ping field
SizeOf(v) == IF v.kind \in {"uniq", "uniq_float64"} THEN 1 ELSE Len(v.val)

\* uniq.squeeze() of the single row of a frequency field
SqueezeRow(row) == IF Len(row) = 1 THEN row[1] ELSE row

\* the fields in the order they are reduced, with their shape
ReducedFields ==
    [i \in 1..Len(field_w_freq) |-> <<field_w_freq[i], TRUE>>]
    \o [i \in 1..Len(field_include) |-> <<field_include[i], FALSE>>]

RECURSIVE ReduceFrom(_, _, _)
ReduceFrom(d, fields, i) ==
    IF i > Len(fields) THEN [err |-> NoError, data |-> d]
    ELSE LET field == fields[i][1]
             uniq == Range(Get(d, field).val)
         IN  IF Cardinality(uniq) = 1
             THEN LET u == CHOOSE x \in uniq : TRUE
                  IN  ReduceFrom(
                          Put(d, field,
                              [kind |-> "uniq",
                               val |-> IF fields[i][2] THEN SqueezeRow(u) ELSE u]),
                          fields, i + 1)
             ELSE [err |-> Raise("ValueError", field), data |-> d]

\* the reducer without the test that it has run already: np.unique along
\* the ping axis of a field that is reduced finds no such axis, or finds
\* the channels of the one row as rows of their own
check_uniqueness_unguarded(d) ==
    IF Get(d, "dig_rate").kind = "list"
    THEN ReduceFrom(Put(d, "profile_flag", Get(d, "profile_flag")), ReducedFields, 1)
    ELSE [err |-> Raise("ValueError", "dig_rate"), data |-> d]

\* [err, data]
check_uniqueness(d) ==
    IF SizeOf(Get(d, "profile_flag")) # 1
    THEN ReduceFrom(Put(d, "profile_flag", Get(d, "profile_flag")), ReducedFields, 1)
    ELSE [err |-> NoError, data |-> d]

(***************************************************************************)
(* _get_ping_time, for a dataset that is not empty: [err, val].            *)
(***************************************************************************)
get_ping_time(d) ==
    LET n == Len(Get(d, "year").val)
    IN  IF \E i \in 0..(n - 1) : ~DateOk(PingDate(d, i))
        THEN [err |-> Raise("ValueError", "datetime"), val |-> <<>>]
        ELSE [err |-> NoError, val |-> [i \in 1..n |-> PingDate(d, i - 1)]]

(***************************************************************************)
(* The end of parse_raw: frequency cast to float64, then every list whose  *)
(* first element is not a list turned into an array: [err, data].  The     *)
(* elements of counts are lists (vv_tmp); those of every other key are     *)
(* numbers or tuples.                                                      *)
(***************************************************************************)
finalize(d) ==
    LET freq == Get(d, "frequency")
        d1 == Put(d, "frequency", [kind |-> "uniq_float64", val |-> freq.val])
    IN  IF freq.kind = "list"
        THEN [err |-> Raise("AttributeError", "astype"), data |-> Put(d, "frequency", freq)]
        ELSE IF \E k \in DOMAIN d1 : d1[k].kind = "list" /\ d1[k].val = <<>>
        THEN [err |-> Raise("IndexError", "val[0]"), data |-> d1]
        ELSE [err |-> NoError,
              data |-> [k \in DOMAIN d1 |->
                           IF d1[k].kind = "list" /\ k # "counts"
                           THEN [kind |-> "ndarray", val |-> d1[k].val]
                           ELSE d1[k]]]

(***************************************************************************)
(* The state machine.                                                      *)
(***************************************************************************)
Init ==
    \E ids \in SeqsUpTo(1..Len(FrameCatalog), MaxPings), prm \in ParamChoices :
      \E drop \in DropChoices(Frames(ids)) :
        /\ written = ids
        /\ xml_file = prm
        /\ source_file = LET all == EncodeAll(Frames(ids))
                         IN  SubSeq(all, 1, Len(all) - drop)
        /\ parameters = EmptyDict
        /\ unpacked_data = EmptyDict
        /\ ping_time = [set |-> FALSE, val |-> <<>>]
        /\ pos = 0
        /\ pc = "parse_raw"
        /\ ping_num = 0
        /\ eof = FALSE
        /\ header_unpacked = <<>>
        /\ error = NoError
        /\ depth = 0
        /\ hist = [opens |-> 0, bytes_read |-> 0, iters |-> 0, uniq_runs |-> 0,
                   time_runs |-> 0, first |-> <<>>]

\* an exception leaves parse_raw
Raised(e) == pc' = "raised" /\ error' = e

\* parse_raw up to the loop: load the XML file, open the raw file
ParseRawBegin ==
    /\ pc = "parse_raw"
    /\ parameters' = xml_file
    /\ pos' = 0
    /\ ping_num' = 0
    /\ eof' = FALSE
    /\ hist' = [hist EXCEPT !.opens = @ + 1]
    /\ pc' = "loop"
    /\ UNCHANGED <<written, xml_file, source_file, unpacked_data, ping_time,
                   header_unpacked, error, depth>>

\* one header read: end of file, a short header, or a header to split
ReadHeader ==
    /\ pc = "loop"
    /\ LET header_chunk == ReadBytes(source_file, pos, HEADER_SIZE)
       IN  /\ pos' = ReadPos(source_file, pos, HEADER_SIZE)
           /\ hist' = [hist EXCEPT !.iters = @ + 1,
                                   !.bytes_read = @ + Len(header_chunk)]
           /\ IF header_chunk = <<>>
              THEN /\ eof' = TRUE
                   /\ ping_num' = ping_num + 1
                   /\ pc' = "check_uniqueness"
                   /\ UNCHANGED <<header_unpacked, error>>
              ELSE IF ~StructOk(HEADER_FORMAT, header_chunk)
              THEN /\ Raised(Raise("struct.error", "header"))
                   /\ UNCHANGED <<eof, ping_num, header_unpacked>>
              ELSE /\ header_unpacked' = unpack(HEADER_FORMAT, header_chunk)
                   /\ pc' = "split_header"
                   /\ UNCHANGED <<eof, ping_num, error>>
    /\ UNCHANGED <<written, xml_file, source_file, parameters, unpacked_data,
                   ping_time, depth>>

\* _split_header and the branch on its result
SplitHeader ==
    /\ pc = "split_header"
    /\ LET r == split_header(unpacked_data, source_file, pos, header_unpacked,
                             parameters.num_freq)
       IN  /\ pos' = r.pos
           /\ hist' = [hist EXCEPT !.bytes_read = @ + (r.pos - pos)]
           /\ unpacked_data' = r.data
           /\ pc' = IF r.ok THEN "add_counts" ELSE "check_uniqueness"
    /\ UNCHANGED <<written, xml_file, source_file, parameters, ping_time, ping_num,
                   eof, header_unpacked, error, depth>>

\* _add_counts
AddCounts ==
    /\ pc = "add_counts"
    /\ LET r == add_counts(unpacked_data, source_file, pos, ping_num, parameters.DS)
       IN  /\ pos' = r.pos
           /\ hist' = [hist EXCEPT !.bytes_read = @ + (r.pos - pos)]
           /\ unpacked_data' = r.data
           /\ IF r.err # NoError
              THEN Raised(r.err)
              ELSE /\ pc' = IF ping_num = 0 THEN "print_status" ELSE "calibrate"
                   /\ UNCHANGED error
    /\ UNCHANGED <<written, xml_file, source_file, parameters, ping_time, ping_num,
                   eof, header_unpacked, depth>>

\* _print_status, on the first ping
PrintStatus ==
    /\ pc = "print_status"
    /\ LET e == print_status(unpacked_data)
       IN  IF e # NoError THEN Raised(e) ELSE pc' = "calibrate" /\ UNCHANGED error
    /\ UNCHANGED <<written, xml_file, source_file, parameters, unpacked_data,
                   ping_time, pos, ping_num, eof, header_unpacked, depth, hist>>

\* the calibrated values of the ping, and the end of the loop body
Calibrate ==
    /\ pc = "calibrate"
    /\ LET r == calibrate(unpacked_data, parameters, ping_num)
       IN  /\ unpacked_data' = r.data
           /\ IF r.err # NoError
              THEN Raised(r.err) /\ UNCHANGED ping_num
              ELSE /\ ping_num' = ping_num + 1
                   /\ pc' = "loop"
                   /\ UNCHANGED error
    /\ UNCHANGED <<written, xml_file, source_file, parameters, ping_time, pos, eof,
                   header_unpacked, depth, hist>>

\* _check_uniqueness: on an empty dataset it calls parse_raw
CheckUniqueness ==
    /\ pc = "check_uniqueness"
    /\ hist' = [hist EXCEPT !.uniq_runs = @ + 1]
    /\ IF DOMAIN unpacked_data = {}
       THEN /\ IF depth + 1 >= RecursionLimit
               THEN Raised(Raise("RecursionError", "parse_raw")) /\ UNCHANGED depth
               ELSE /\ depth' = depth + 1
                    /\ pc' = "parse_raw"
                    /\ UNCHANGED error
            /\ UNCHANGED unpacked_data
       ELSE LET r == check_uniqueness(unpacked_data)
            IN  /\ unpacked_data' = r.data
                /\ IF r.err # NoError
                   THEN Raised(r.err)
                   ELSE pc' = "get_ping_time" /\ UNCHANGED error
                /\ UNCHANGED depth
    /\ UNCHANGED <<written, xml_file, source_file, parameters, ping_time, pos,
                   ping_num, eof, header_unpacked>>

\* _get_ping_time
GetPingTime ==
    /\ pc = "get_ping_time"
    /\ hist' = [hist EXCEPT !.time_runs = @ + 1]
    /\ LET r == get_ping_time(unpacked_data)
       IN  IF r.err # NoError
           THEN Raised(r.err) /\ UNCHANGED ping_time
           ELSE /\ ping_time' = [set |-> TRUE, val |-> r.val]
                /\ pc' = "finalize"
                /\ UNCHANGED error
    /\ UNCHANGED <<written, xml_file, source_file, parameters, unpacked_data, pos,
                   ping_num, eof, header_unpacked, depth>>

\* the casts that end parse_raw
Finalize ==
    /\ pc = "finalize"
    /\ LET r == finalize(unpacked_data)
       IN  /\ unpacked_data' = r.data
           /\ IF r.err # NoError
              THEN Raised(r.err) /\ UNCHANGED parameters
              ELSE /\ parameters' = [parameters EXCEPT !.as_array = TRUE]
                   /\ pc' = "done"
                   /\ UNCHANGED error
    /\ UNCHANGED <<written, xml_file, source_file, ping_time, pos, ping_num, eof,
                   header_unpacked, depth, hist>>

Next ==
    \/ ParseRawBegin
    \/ ReadHeader
    \/ SplitHeader
    \/ AddCounts
    \/ PrintStatus
    \/ Calibrate
    \/ CheckUniqueness
    \/ GetPingTime
    \/ Finalize

Spec == Init /\ [][Next]_vars

(***************************************************************************)
(* A caller that compares two parses.  After a parse that ended at the end *)
(* of its file, a new parser object is constructed on the file with one    *)
(* more frame after it, a frame with a foreign marker and its payload;     *)
(* what the first parse left (the attributes of the object) and the reason *)
(* it stopped (the local eof) are kept in hist.first.                      *)
(***************************************************************************)
ParseExtendedStream ==
    /\ pc = "done"
    /\ eof
    /\ hist.first = <<>>
    /\ hist' = [hist EXCEPT !.first = <<[eof |-> eof,
                                         parameters |-> parameters,
                                         unpacked_data |-> unpacked_data,
                                         ping_time |-> ping_time]>>]
    /\ written' = Append(written, 5)
    /\ source_file' = source_file \o EncodeFrame(FrameCatalog[5])
    /\ parameters' = EmptyDict
    /\ unpacked_data' = EmptyDict
    /\ ping_time' = [set |-> FALSE, val |-> <<>>]
    /\ pos' = 0
    /\ pc' = "parse_raw"
    /\ ping_num' = 0
    /\ eof' = FALSE
    /\ header_unpacked' = <<>>
    /\ UNCHANGED <<xml_file, error, depth>>

(***************************************************************************)
(* A caller that invokes _check_uniqueness again on the parser object      *)
(* after a parse_raw whose own call of it returned: parse_raw has          *)
(* completed, or it has raised in a later stage.                           *)
(***************************************************************************)
CheckUniquenessAgain ==
    /\ pc \in {"done", "raised"}
    /\ hist.time_runs >= 1
    /\ DOMAIN unpacked_data # {}
    /\ hist' = [hist EXCEPT !.uniq_runs = @ + 1]
    /\ LET r == check_uniqueness(unpacked_data)
       IN  /\ unpacked_data' = r.data
           /\ error' = r.err
           /\ pc' = IF r.err # NoError THEN "raised_again" ELSE "checked_again"
    /\ UNCHANGED <<written, xml_file, source_file, parameters, ping_time, pos,
                   ping_num, eof, header_unpacked, depth>>

NextSecondCheck ==
    \/ Next
    \/ CheckUniquenessAgain

SpecSecondCheck == Init /\ [][NextSecondCheck]_vars

NextTwoParses ==
    \/ Next
    \/ ParseExtendedStream

SpecTwoParses == Init /\ [][NextTwoParses]_vars

(***************************************************************************)
(* Vocabulary of the properties.                                           *)
(***************************************************************************)
Terminated == pc \in {"done", "raised"}

\* number of pings held by the dataset (year is appended per ping and never reduced)
PingCount == Len(Get(unpacked_data, "year").val)

\* the frame the instrument wrote as the i-th of the file
WrittenFrame(i) == FrameCatalog[written[i]]

\* the file holds every written frame to its last byte
FileIsWhole == source_file = EncodeAll(Frames(written))

\* the expected-constant fields: nine frequency-shaped, nine scalar
FreqShapedFields ==
    {"dig_rate", "lockout_index", "num_bins", "range_samples_per_bin", "data_type",
     "gain", "pulse_length", "board_num", "frequency"}

ScalarConstFields ==
    {"profile_flag", "serial_number", "burst_int", "ping_per_profile", "avg_pings",
     "ping_period", "phase", "num_chan", "spare_chan"}

\* the value of an expected-constant field exposed for a frame under num_freq channels
Exposed(fr, f, nf) == IF f \in FreqShapedFields THEN SubSeq(fr[f], 1, nf) ELSE fr[f]

\* a frame the parser is meant to decode under the configured parameters
ValidFrame(fr, prm) ==
    /\ fr.profile_flag = FILE_TYPE
    /\ fr.num_chan <= prm.num_freq
    /\ DateOk(<<fr.year, fr.month, fr.day, fr.hour, fr.minute,
                IntSeconds(fr.second, fr.hundredths)>>)
    /\ ~(test_valid_params(prm, {"ka", "kb", "kc"})
         /\ 131070 * prm.kc = 5 * fr.ancillary[5])

\* a file of complete valid pings of one configuration
WholeValidStream ==
    /\ FileIsWhole
    /\ \A i \in 1..Len(written) : ValidFrame(WrittenFrame(i), xml_file)
    /\ \A i \in 1..Len(written) :
         \A f \in FreqShapedFields \cup ScalarConstFields :
           Exposed(WrittenFrame(i), f, xml_file.num_freq)
             = Exposed(WrittenFrame(1), f, xml_file.num_freq)

\* the dataset holds, ping for ping, the per-ping fields of the written frames
HoldsWrittenPings ==
    /\ PingCount = Len(written)
    /\ \A i \in 1..Len(written) :
         /\ At(unpacked_data, "profile_number", i - 1) = WrittenFrame(i).profile_number
         /\ At(unpacked_data, "second", i - 1) = WrittenFrame(i).second
         /\ At(unpacked_data, "ancillary", i - 1) = WrittenFrame(i).ancillary

(***************************************************************************)
(* C1.  A stream of k >= 0 complete valid pings followed by end of stream  *)
(* (k = 0 and k = 1 included) ends normally: parse_raw raises no error and *)
(* the finalized dataset holds exactly those k pings.                      *)
(***************************************************************************)
C1_EndOfStreamIsNormal ==
    (WholeValidStream /\ Terminated) =>
        /\ pc = "done"
        /\ error = NoError
        /\ eof
        /\ HoldsWrittenPings

(***************************************************************************)
(* C2.  A complete header whose marker is not FILE_TYPE stops the stream   *)
(* driver without raising and without touching the accumulated data: the   *)
(* step that examines it goes to the stages after the loop, raises         *)
(* nothing, and leaves unpacked_data as it was.                            *)
(***************************************************************************)
C2_UnrecognizedFrameStops ==
    [][(pc = "split_header" /\ header_unpacked[1] # FILE_TYPE) =>
           /\ pc' = "check_uniqueness"
           /\ error' = NoError
           /\ DOMAIN unpacked_data' = DOMAIN unpacked_data
           /\ \A k \in DOMAIN unpacked_data :
                Len(unpacked_data'[k].val) = Len(unpacked_data[k].val)]_vars

(***************************************************************************)
(* C3.  A header whose first field differs from FILE_TYPE is never         *)
(* accepted for sample decoding, whether or not a byte follows it; a file  *)
(* that is one header with a foreign marker and nothing after it ends with *)
(* zero pings, stopped by the unrecognized frame, and no error.            *)
(***************************************************************************)
C3_ForeignMarkerIsInvalid ==
    /\ pc = "add_counts" => header_unpacked[1] = FILE_TYPE
    /\ ( /\ Len(source_file) = HEADER_SIZE
         /\ UnpackH(SubSeq(source_file, 1, 2)) # FILE_TYPE
         /\ Terminated )
       => (pc = "done" /\ error = NoError /\ ~eof /\ PingCount = 0)

(***************************************************************************)
(* C4.  When the reducer runs on a dataset in which an expected-constant   *)
(* field has more than one distinct value, it raises ValueError naming a   *)
(* field that is not constant, the timestamp assembler has not run and     *)
(* ping_time stays unset; once an error is raised nothing runs any more.   *)
(***************************************************************************)
NotConstant(d) ==
    {f \in (FreqShapedFields \cup ScalarConstFields) \cap DOMAIN d :
        d[f].kind = "list" /\ Cardinality(Range(d[f].val)) > 1}

C4_InconsistentConfigAborts ==
    [][/\ pc # "raised"
       /\ (pc = "check_uniqueness" /\ NotConstant(unpacked_data) # {}) =>
              /\ pc' = "raised"
              /\ error'.type = "ValueError"
              /\ error'.msg \in NotConstant(unpacked_data)
              /\ hist'.time_runs = 0
              /\ ~ping_time'.set]_vars

\* two pings that differ only in serial_number were rejected, naming it
C4_Witness ==
    /\ written = <<1, 3>>
    /\ PingCount = 2
    /\ pc = "raised"
    /\ error = Raise("ValueError", "serial_number")

(***************************************************************************)
(* C5.  Once the reducer has run without error over N >= 1 pings, every    *)
(* expected-constant field holds its single value (the squeezed channel    *)
(* vector or the scalar), not a per-ping sequence; N = 1 included.         *)
(***************************************************************************)
C5_ReducedToSingleValue ==
    (pc \in {"get_ping_time", "finalize", "done"} /\ PingCount >= 1) =>
        \A f \in FreqShapedFields \cup ScalarConstFields :
            /\ unpacked_data[f].kind \in {"uniq", "uniq_float64"}
            /\ unpacked_data[f].val
                 = (IF f \in FreqShapedFields
                    THEN SqueezeRow(Exposed(WrittenFrame(1), f, parameters.num_freq))
                    ELSE WrittenFrame(1)[f])

(***************************************************************************)
(* C6.  The reducer and the timestamp assembler each run at most once,     *)
(* exactly once in a parse that completes, the assembler after the         *)
(* reducer; once the reducer has started the stream driver is at none of   *)
(* its control points again and no parse is nested in another.             *)
(***************************************************************************)
DriverPoints ==
    {"parse_raw", "loop", "split_header", "add_counts", "print_status", "calibrate"}

C6_StagesRunOnceAfterDriver ==
    /\ hist.uniq_runs <= 1
    /\ hist.time_runs <= 1
    /\ hist.time_runs >= 1 => hist.uniq_runs >= 1
    /\ hist.uniq_runs >= 1 => pc \notin DriverPoints
    /\ depth = 0
    /\ pc = "done" => (hist.uniq_runs = 1 /\ hist.time_runs = 1)

(***************************************************************************)
(* C7.  parse_raw is a single front-to-back pass that terminates: the file *)
(* is opened once, no more bytes are returned by reads than the file       *)
(* holds, and the loop iterates at most once per byte plus the final empty *)
(* read.                                                                   *)
(***************************************************************************)
C7_SinglePass ==
    /\ hist.opens <= 1
    /\ hist.bytes_read <= Len(source_file)
    /\ hist.iters <= Len(source_file) + 1

(***************************************************************************)
(* C8.  For an averaged channel the linear magnitude of a bin is           *)
(* sum + overflow * 2^32: every finite decoded sample is computed from     *)
(* that magnitude of the sum and overflow count written for it.            *)
(***************************************************************************)
\* the samples decoded so far for averaged channels, with what was written
AvgDecoded ==
    LET cs == Get(unpacked_data, "counts").val
    IN  {<<i, ch, j>> \in (1..Len(cs)) \X (1..firmware_freq_len) \X (1..2) :
            /\ ch <= Len(cs[i])
            /\ WrittenFrame(i).data_type[ch] # 0
            /\ j <= Len(cs[i][ch])}

C8_MagnitudeIsSumPlusOverflow ==
    \A t \in AvgDecoded :
        LET v == Get(unpacked_data, "counts").val[t[1]][t[2]][t[3]]
            w == WrittenFrame(t[1]).samples[t[2]][t[3]]
        IN  v.cls = "fin" => v.mag = BigAdd(w.sum, <<0, 0, w.overflow>>)

(***************************************************************************)
(* C9.  Every decoded sample of an averaged channel is finite (never NaN), *)
(* and a bin with sum = 0 and overflow = 0 decodes to exactly 0.           *)
(***************************************************************************)
C9_AveragedSamplesFinite ==
    \A t \in AvgDecoded :
        LET v == Get(unpacked_data, "counts").val[t[1]][t[2]][t[3]]
            w == WrittenFrame(t[1]).samples[t[2]][t[3]]
        IN  /\ v.cls # "nan"
            /\ (w.sum = BigZero /\ w.overflow = 0) => v.cls = "zero"

(***************************************************************************)
(* C10.  For a raw channel of any decoded ping the sample vector has       *)
(* num_bins elements, equal in order to the 16-bit values written          *)
(* big-endian in the payload; counts[i] holds the vectors of the i-th      *)
(* ping of the stream.                                                     *)
(***************************************************************************)
C10_RawChannelIdentity ==
    LET cs == Get(unpacked_data, "counts").val
    IN  \A i \in 1..Len(cs) :
          \A ch \in 1..Len(cs[i]) :
            WrittenFrame(i).data_type[ch] = 0 =>
                /\ Len(cs[i][ch]) = WrittenFrame(i).num_bins[ch]
                /\ cs[i][ch] = WrittenFrame(i).samples[ch]

\* a two-ping file of one raw channel decoded to the end
C10_Witness ==
    /\ written = <<1, 2>>
    /\ pc = "done"
    /\ Get(unpacked_data, "counts").val = << << <<258, 3>> >>, << <<4, 65535>> >> >>

(***************************************************************************)
(* C11.  After a ping is decoded the stream position has advanced from the *)
(* start of its frame by the 124 header bytes plus, over the channels of   *)
(* the ping, 2 * num_bins bytes for a raw channel and 5 * num_bins bytes   *)
(* for an averaged one, so that every header read starts at a frame        *)
(* boundary; a channel with num_bins = 0 yields an empty vector, and no    *)
(* read of a file that holds its frames whole is short.                    *)
(***************************************************************************)
RECURSIVE PayloadBytes(_, _)
PayloadBytes(fr, ch) ==
    IF ch = 0 THEN 0
    ELSE PayloadBytes(fr, ch - 1)
           + (IF fr.data_type[ch] # 0 THEN 5 * fr.num_bins[ch] ELSE 2 * fr.num_bins[ch])

FrameBytes(fr) == HEADER_SIZE + PayloadBytes(fr, fr.num_chan)

\* the offset at which the frame after the first k written frames starts
RECURSIVE FrameBoundary(_)
FrameBoundary(k) ==
    IF k = 0 THEN 0 ELSE FrameBoundary(k - 1) + FrameBytes(WrittenFrame(k))

C11_PositionAtFrameBoundary ==
    /\ pc = "loop" => pos = FrameBoundary(ping_num)
    /\ pc \in {"print_status", "calibrate"} => pos = FrameBoundary(ping_num + 1)
    /\ LET cs == Get(unpacked_data, "counts").val
       IN  \A i \in 1..Len(cs) :
             \A ch \in 1..Len(cs[i]) :
               WrittenFrame(i).num_bins[ch] = 0 => cs[i][ch] = <<>>
    /\ error.type = "struct.error" => ~FileIsWhole

\* a ping without bins, then a ping of one averaged channel of two bins,
\* both decoded, and the driver back at the head of its loop
C11_Witness ==
    /\ written = <<4, 7>>
    /\ pc = "loop"
    /\ ping_num = 2
    /\ pos = 2 * HEADER_SIZE + 10
    /\ Get(unpacked_data, "counts").val[1] = << <<>> >>
    /\ Len(Get(unpacked_data, "counts").val[2][1]) = 2

(***************************************************************************)
(* C12.  The two terminations that are no failure, end of stream and an    *)
(* unrecognized frame marker, can be told apart from what parse_raw        *)
(* leaves: when two parses that completed stopped for different reasons,   *)
(* the attributes they leave (parameters, unpacked_data, ping_time) are    *)
(* not the same.                                                           *)
(***************************************************************************)
C12_StopReasonObservable ==
    (pc = "done" /\ Len(hist.first) = 1) =>
        LET first == hist.first[1]
        IN  first.eof # eof =>
              <<first.parameters, first.unpacked_data, first.ping_time>>
                # <<parameters, unpacked_data, ping_time>>

(***************************************************************************)
(* C13.  Once the timestamp assembler has run, ping_time holds one time    *)
(* per decoded ping, in ping order, made of the year, month, day, hour and *)
(* minute written for that ping and of a seconds component that is         *)
(* second + hundredths / 100 truncated to an integer: the second field     *)
(* itself for every hundredths in 0..99.                                   *)
(***************************************************************************)
C13_PingTimePerPing ==
    ping_time.set =>
        /\ Len(ping_time.val) = PingCount
        /\ \A i \in 1..Len(ping_time.val) :
             LET fr == WrittenFrame(i)
                 t == ping_time.val[i]
             IN  /\ SubSeq(t, 1, 5) = <<fr.year, fr.month, fr.day, fr.hour, fr.minute>>
                 /\ 100 * t[6] <= 100 * fr.second + fr.hundredths
                 /\ 100 * fr.second + fr.hundredths < 100 * (t[6] + 1)
                 /\ fr.hundredths \in 0..99 => t[6] = fr.second

\* two pings, of second 5 with 60 hundredths and of second 59 with 99
C13_Witness ==
    /\ written = <<1, 2>>
    /\ ping_time.set
    /\ ping_time.val = << <<2020, 1, 2, 3, 4, 5>>, <<2020, 1, 2, 3, 4, 59>> >>

(***************************************************************************)
(* C14.  The validity of the temperature and tilt coefficients depends on  *)
(* the parameters alone.  With ka, kb and kc all zero the temperature of   *)
(* every ping is NaN; with the a, b and c coefficients of a tilt axis all  *)
(* zero the tilt of that axis is NaN for every ping; the composite tilt    *)
(* magnitude is appended all the same and is NaN when either tilt is NaN.  *)
(* None of this raises or stops the driver: at the head of the loop every  *)
(* ping has its calibrated values, and the one error of the calibration,   *)
(* ZeroDivisionError, needs temperature coefficients that are not all      *)
(* zero.                                                                   *)
(***************************************************************************)
AllZero(names) == \A n \in names : xml_file[n] = 0

C14_InvalidCoefficientsGiveNaN ==
    LET temperature == Get(unpacked_data, "temperature").val
        tilt_x == Get(unpacked_data, "tilt_x").val
        tilt_y == Get(unpacked_data, "tilt_y").val
        cos == Get(unpacked_data, "cos_tilt_mag").val
    IN  /\ AllZero({"ka", "kb", "kc"}) => \A i \in 1..Len(temperature) : temperature[i] = NaN
        /\ AllZero({"X_a", "X_b", "X_c"}) => \A i \in 1..Len(tilt_x) : tilt_x[i] = NaN
        /\ AllZero({"Y_a", "Y_b", "Y_c"}) => \A i \in 1..Len(tilt_y) : tilt_y[i] = NaN
        /\ Len(cos) = Len(tilt_x) /\ Len(cos) = Len(tilt_y) /\ Len(cos) = Len(temperature)
        /\ \A i \in 1..Len(cos) : (tilt_x[i] = NaN \/ tilt_y[i] = NaN) => cos[i] = NaN
        /\ pc = "loop" => Len(cos) = ping_num
        /\ error.type = "ZeroDivisionError" => ~AllZero({"ka", "kb", "kc"})

\* two pings under parameters with no temperature and no X tilt
\* coefficients, and Y tilt coefficients that are valid
C14_Witness ==
    /\ xml_file.num_freq = 2
    /\ written = <<1, 2>>
    /\ pc = "done"
    /\ Get(unpacked_data, "temperature").val = <<NaN, NaN>>
    /\ Get(unpacked_data, "tilt_x").val = <<NaN, NaN>>
    /\ Get(unpacked_data, "tilt_y").val[2].cls = "tilt_Y"
    /\ Get(unpacked_data, "cos_tilt_mag").val = <<NaN, NaN>>

(***************************************************************************)
(* C15.  At every head of the loop of the stream driver, and when the loop *)
(* has ended, every per-ping field (each header field, counts and the six  *)
(* calibrated values) has one entry per valid ping decoded so far and no   *)
(* other entry; at the head of the loop that number is also the index the  *)
(* next ping gets.                                                         *)
(***************************************************************************)
PerPingFields ==
    {HEADER_FIELDS[i][1] : i \in 1..Len(HEADER_FIELDS)}
    \cup {"counts", "temperature", "tilt_x", "tilt_y", "cos_tilt_mag",
          "battery_main", "battery_tx"}

\* the written frames with the marker of the format that the driver has passed
ValidPingsDecoded ==
    Cardinality({i \in 1..Len(written) :
                    /\ FrameBoundary(i) <= pos
                    /\ WrittenFrame(i).profile_flag = FILE_TYPE})

C15_PerPingFieldsInStep ==
    pc \in {"loop", "check_uniqueness"} =>
        /\ \A f \in PerPingFields :
             Len(Get(unpacked_data, f).val) = ValidPingsDecoded
        /\ pc = "loop" => ping_num = ValidPingsDecoded

(***************************************************************************)
(* C16.  Under every configured channel count c (1 to 4) a decoded header  *)
(* gives, for each frequency-dependent field, the first c of the 4 slots   *)
(* written for it and nothing of the slots after them, and for every other *)
(* field the value written for it: each field is read where the 124-byte   *)
(* header has it, whatever c is.                                           *)
(***************************************************************************)
C16_HeaderSlotsByPosition ==
    \A k \in 1..Len(HEADER_FIELDS) :
        LET f == HEADER_FIELDS[k][1]
            v == Get(unpacked_data, f)
        IN  v.kind \in {"list", "ndarray"} =>
              \A i \in 1..Len(v.val) :
                  v.val[i] = Exposed(WrittenFrame(i), f, xml_file.num_freq)

\* a header decoded under three configured channels: three slots of a
\* frequency-dependent field, and the fields after it from their own place
C16_Witness ==
    /\ xml_file.num_freq = 3
    /\ pc = "add_counts"
    /\ ping_num = 0
    /\ written \in {<<1>>, <<1, 2>>}
    /\ At(unpacked_data, "dig_rate", 0) = <<20, 9001, 9002>>
    /\ At(unpacked_data, "frequency", 0) = <<38, 9061, 9062>>
    /\ At(unpacked_data, "num_chan", 0) = 1
    /\ At(unpacked_data, "ad", 0) = <<600, 700>>

(***************************************************************************)
(* C17.  The divisor of an averaged channel of a ping is                   *)
(* ping_per_profile * range_samples_per_bin[channel] when avg_pings of     *)
(* that ping is not zero and range_samples_per_bin[channel] when it is     *)
(* zero: every finite decoded sample is computed with that divisor, taken  *)
(* from the header written for the same ping and for the same channel.     *)
(***************************************************************************)
C17_DivisorOfAveragedChannel ==
    \A t \in AvgDecoded :
        LET v == Get(unpacked_data, "counts").val[t[1]][t[2]][t[3]]
            fr == WrittenFrame(t[1])
        IN  v.cls = "fin" =>
              v.div = (IF fr.avg_pings # 0
                       THEN fr.ping_per_profile * fr.range_samples_per_bin[t[2]]
                       ELSE fr.range_samples_per_bin[t[2]])

\* a ping not averaged in time (5 pings per profile, 4 range samples per
\* bin of its second channel), then a ping averaged in time (3 pings per
\* profile, 2 range samples per bin)
C17_Witness ==
    /\ xml_file.num_freq = 3
    /\ written = <<9, 7>>
    /\ pc = "calibrate"
    /\ ping_num = 1
    /\ LET cs == Get(unpacked_data, "counts").val
       IN  /\ cs[1][2][1].cls = "fin" /\ cs[1][2][1].div = 4
           /\ cs[2][1][2].cls = "fin" /\ cs[2][1][2].div = 6

(***************************************************************************)
(* C18.  Every decoded ping has one sample block, of one vector per        *)
(* configured channel (num_freq of the parameters), and the sample decoder *)
(* never indexes a header vector or DS past the slots that are exposed,    *)
(* whatever the channel-count byte of the header is.                       *)
(***************************************************************************)
C18_OneVectorPerConfiguredChannel ==
    LET cs == Get(unpacked_data, "counts").val
    IN  /\ pc = "loop" => Len(cs) = PingCount
        /\ \A i \in 1..Len(cs) : Len(cs[i]) = xml_file.num_freq
        /\ error.type # "IndexError"

(***************************************************************************)
(* C19.  A file cut at a byte inside a frame (inside the header, so that   *)
(* the header read returns 1 to 123 bytes, or inside the sample payload)   *)
(* of a stream of valid pings stops the parse without a raised failure,    *)
(* and the parse keeps exactly the pings that are whole before the cut.    *)
(***************************************************************************)
\* the written frames are valid pings of one configuration, and the file
\* holds all of them but the last whole and the last one in part
CutInsideLastFrame ==
    /\ Len(written) >= 1
    /\ \A i \in 1..Len(written) : ValidFrame(WrittenFrame(i), xml_file)
    /\ \A i \in 1..Len(written) :
         \A f \in FreqShapedFields \cup ScalarConstFields :
           Exposed(WrittenFrame(i), f, xml_file.num_freq)
             = Exposed(WrittenFrame(1), f, xml_file.num_freq)
    /\ FrameBoundary(Len(written) - 1) < Len(source_file)
    /\ Len(source_file) < FrameBoundary(Len(written))
    /\ source_file = SubSeq(EncodeAll(Frames(written)), 1, Len(source_file))

C19_TruncationStopsCleanly ==
    CutInsideLastFrame =>
        /\ error = NoError
        /\ Terminated =>
              /\ pc = "done"
              /\ PingCount = Len(written) - 1
              /\ \A i \in 1..(Len(written) - 1) :
                   Get(unpacked_data, "profile_number").val[i]
                     = WrittenFrame(i).profile_number

(***************************************************************************)
(* C20.  The reducer is idempotent: a second call of _check_uniqueness on  *)
(* a dataset that a first call has processed without error (one ping or    *)
(* more) raises nothing and leaves every field as it is.                   *)
(***************************************************************************)
C20_ReducerIdempotent ==
    [][(pc \in {"done", "raised"} /\ hist'.uniq_runs = hist.uniq_runs + 1) =>
           /\ pc' = "checked_again"
           /\ error' = NoError
           /\ unpacked_data' = unpacked_data]_vars

\* the second call has returned on the reduced dataset of two pings
C20_Witness ==
    /\ pc = "checked_again"
    /\ hist.uniq_runs = 2
    /\ written = <<1, 2>>
    /\ unpacked_data["profile_flag"] = [kind |-> "uniq", val |-> FILE_TYPE]
    /\ unpacked_data["profile_number"].val = <<1, 2>>
====
